---- MODULE Spec2Model ----
(***************************************************************************)
(* A model of gnss_analysis/tables.py: the GPS-time backfill and the       *)
(* re-indexer working on a tabular store, the single/double differencer    *)
(* and the gap finder.                                                     *)
(*                                                                         *)
(* Times are integers (one unit = one millisecond).  A cell that may be    *)
(* missing (pandas NaN) is a set: {} when missing, {v} when it holds v, so *)
(* that arithmetic on cells propagates missing values the way pandas does. *)
(***************************************************************************)
EXTENDS Integers, Sequences, FiniteSets, TLC

VARIABLES
  store,      \* the HDFStore: table name -> stored table (names absent are not in DOMAIN)
  op,         \* the last batch operation called: "none", "get_gps_time_col", "reindex_tables"
  tabs,       \* its list of table names
  gpst_col,   \* its column argument
  status,     \* "ok" when it returned, else the exception that left it
  log,        \* log[i]: what the loop did with tabs[i] (only the names the loop reached)
  calls,      \* number of batch operations called so far
  repeated,   \* the last call repeats the call before it: same operation, same arguments
  rover_obs,  \* differencer input: the rover's observation panel
  base_obs,   \* differencer input: the base station's observation panel
  obs_type,   \* observation type of the last get_sdiff call
  sdiff,      \* get_sdiff(obs_type, rover_obs, base_obs)
  sdiff_rev,  \* get_sdiff(obs_type, base_obs, rover_obs)
  ref_sat,    \* result of get_ref_sat(sdiff), as a set ({} before the call)
  ddiff_ref,  \* the ref_sat argument of the last get_ddiff call, as a set
  ddiff,      \* result of get_ddiff
  dstage,     \* position in the differencing pipeline
  idx,        \* gap finder input: the time index
  n,          \* gap finder input: how many gaps to return
  gaps,       \* result of find_largest_gaps(idx, n)
  gstage      \* "input", "done" or the exception raised

storeVars == <<store, op, tabs, gpst_col, status, log, calls, repeated>>
diffVars  == <<rover_obs, base_obs, obs_type, sdiff, sdiff_rev, ref_sat, ddiff_ref, ddiff, dstage>>
gapVars   == <<idx, n, gaps, gstage>>
vars      == <<storeVars, diffVars, gapVars>>

\* A missing value.
NaN == {}

Min(a, b) == IF a <= b THEN a ELSE b

\* Division rounded to the nearest unit (den > 0): the resolution of a Timedelta.
RoundDiv(num, den) == (2 * num + den) \div (2 * den)

RECURSIVE SeqSum(_)
SeqSum(s) == IF s = <<>> THEN 0 ELSE Head(s) + SeqSum(Tail(s))

(***************************************************************************)
(* Flat tables (pandas.DataFrame), seen time-major as store[tab].T:        *)
(*   [kind |-> "DataFrame", index, indexName, cols: Seq([name, vals])]     *)
(* Panels (pandas.Panel), item axis = satellites, minor axis = times:      *)
(*   [kind |-> "Panel", items, minor, fields: Seq([name, data])]           *)
(*   with data[prn][t] a cell.                                             *)
(* Anything else an HDFStore can hold (a pandas.Series):                   *)
(*   [kind |-> "Series", ...]                                              *)
(***************************************************************************)
HasColumn(df, c) == \E i \in 1..Len(df.cols) : df.cols[i].name = c

ColumnPos(df, c) == CHOOSE i \in 1..Len(df.cols) : df.cols[i].name = c

Column(df, c) == df.cols[ColumnPos(df, c)].vals

\* A bug SetColumn could have: the column is appended even when it exists.
SetColumnAppend(df, c, vals) ==
  [df EXCEPT !.cols = Append(@, [name |-> c, vals |-> vals])]

\* dft[c] = vals: an existing column is replaced where it stands, a new one is appended.
SetColumn(df, c, vals) ==
  IF HasColumn(df, c)
  THEN [df EXCEPT !.cols[ColumnPos(df, c)].vals = vals]
  ELSE [df EXCEPT !.cols = Append(@, [name |-> c, vals |-> vals])]

\* A bug set_index could have: the rows are labelled in reverse order.
set_index_reversed(df, c) ==
  [df EXCEPT !.index = [i \in 1..Len(Column(df, c)) |->
                          Column(df, c)[Len(Column(df, c)) + 1 - i]],
             !.indexName = c,
             !.cols = SelectSeq(@, LAMBDA col : col.name # c)]

\* DataFrame.set_index(c): the rows are labelled by column c, which leaves the columns.
set_index(df, c) ==
  [df EXCEPT !.index = Column(df, c),
             !.indexName = c,
             !.cols = SelectSeq(@, LAMBDA col : col.name # c)]

\* Series.reset_index(): the index becomes a column, named after the index, or
\* "index" when the index has no name.
reset_index_name(df) == IF df.indexName = "" THEN "index" ELSE df.indexName

HasField(p, c) == \E i \in 1..Len(p.fields) : p.fields[i].name = c

FieldPos(p, c) == CHOOSE i \in 1..Len(p.fields) : p.fields[i].name = c

Field(p, c) == p.fields[FieldPos(p, c)].data

\* ans[c] = layer on the field-major panel: replaces the layer or adds it.
SetField(p, c, layer) ==
  IF HasField(p, c)
  THEN [p EXCEPT !.fields[FieldPos(p, c)].data = layer]
  ELSE [p EXCEPT !.fields = Append(@, [name |-> c, data |-> layer])]

(***************************************************************************)
(* The clock model.  pd.ols(y, x, intercept=True) is the least-squares     *)
(* line through (x, y); its coefficients are kept as exact fractions over  *)
(* the common denominator den:  beta.x = x_num/den,                        *)
(* beta.intercept = intercept_num/den.  Both the fit and its application   *)
(* scale host offsets by MSEC_TO_SEC, so the model works in milliseconds.  *)
(***************************************************************************)
interpolate_gpst_model(index, host_offset) ==
  LET cnt == Len(index)
      xs == host_offset
      ys == [i \in 1..cnt |-> index[i] - index[1]]
      sx == SeqSum(xs)
      sy == SeqSum(ys)
      sxy == SeqSum([i \in 1..cnt |-> xs[i] * ys[i]])
      sxx == SeqSum([i \in 1..cnt |-> xs[i] * xs[i]])
      cov == cnt * sxy - sx * sy
      var == cnt * sxx - sx * sx
  IN  [x_num |-> cnt * cov, intercept_num |-> sy * var - cov * sx, den |-> cnt * var]

apply_gps_time(host_offset, init_date, model) ==
  init_date + RoundDiv(model.x_num * host_offset + model.intercept_num, model.den)

\* The running state of a batch loop: the store, the exception raised (or "ok")
\* and what was done with each name reached.
\* A bug the missing-table branch could have: the absence is raised, not warned.
WarnRaises(r, tab) ==
  [r EXCEPT !.status = "KeyError", !.log = Append(@, "raise")]

\* warnings.warn("... not found in Pandas table", UserWarning)
Warn(r, tab) == [r EXCEPT !.log = Append(@, "warn")]

\* One pass of the loop of get_gps_time_col.
BackfillTab(r, tab, col, init_date, model) ==
  LET f(t1) == apply_gps_time(t1, init_date, model)
  IN  IF tab \notin DOMAIN r.store
        THEN Warn(r, tab)
      ELSE IF r.store[tab].kind = "DataFrame"
        THEN LET dft == r.store[tab]
                 host == Column(dft, "host_offset")
             IN  [r EXCEPT !.store[tab] =
                               SetColumn(dft, col, [i \in 1..Len(host) |-> f(host[i])]),
                           !.log = Append(@, "DataFrame")]
      ELSE IF r.store[tab].kind = "Panel"
        THEN LET p == r.store[tab]
                 host == Field(p, "host_offset")
                 \* y[prn] holds f of the non-missing offsets; the assignment
                 \* aligns it with the panel's axes, the rest is missing
                 y == [prn \in p.items |-> [t \in p.minor |-> {f(h) : h \in host[prn][t]}]]
             IN  [r EXCEPT !.store[tab] = SetField(p, "approx_gps_time", y),
                           !.log = Append(@, "Panel")]
      ELSE [r EXCEPT !.log = Append(@, "pass")]

RECURSIVE BackfillLoop(_, _, _, _, _)
BackfillLoop(r, ts, col, init_date, model) ==
  IF ts = <<>> \/ r.status # "ok" THEN r
  ELSE BackfillLoop(BackfillTab(r, Head(ts), col, init_date, model),
                    Tail(ts), col, init_date, model)

get_gps_time_col(st, ts, col) ==
  LET ref == st["rover_spp"]
      r0 == [store |-> st, status |-> "ok", log |-> <<>>]
  IN  IF reset_index_name(ref) # "index"
        THEN [r0 EXCEPT !.status = "KeyError"]     \* df_gps['index']
      ELSE BackfillLoop(r0, ts, col, ref.index[1],
                        interpolate_gpst_model(ref.index, Column(ref, "host_offset")))

\* One pass of the loop of reindex_tables.
ReindexTab(r, tab, col) ==
  IF tab \notin DOMAIN r.store
    THEN Warn(r, tab)
  ELSE IF r.store[tab].kind = "DataFrame"
    THEN IF HasColumn(r.store[tab], col)
           THEN [r EXCEPT !.store[tab] = set_index(r.store[tab], col),
                          !.log = Append(@, "DataFrame")]
           ELSE [r EXCEPT !.status = "KeyError", !.log = Append(@, "raise")]
  ELSE IF r.store[tab].kind = "Panel"
    THEN [r EXCEPT !.log = Append(@, "pass")]    \* assert NotImplementedError: a true assertion
  ELSE [r EXCEPT !.log = Append(@, "pass")]

RECURSIVE ReindexLoop(_, _, _)
ReindexLoop(r, ts, col) ==
  IF ts = <<>> \/ r.status # "ok" THEN r
  ELSE ReindexLoop(ReindexTab(r, Head(ts), col), Tail(ts), col)

reindex_tables(st, ts, col) ==
  ReindexLoop([store |-> st, status |-> "ok", log |-> <<>>], ts, col)

(***************************************************************************)
(* The store the batch operations run on.                                  *)
(***************************************************************************)
\* Longest list of table names passed to a batch operation.
MaxTabs == 2

\* Number of batch operations called in one run.
MaxCalls == 2

Names == {"rover_spp", "tab_a", "tab_b"}

Cols == {"approx_gps_time", "gpst"}

TabLists == UNION {[1..k -> Names] : k \in 0..MaxTabs}

\* The reference table: GPS timestamps as row labels, the host's log offsets.
RoverSpp ==
  [kind |-> "DataFrame", index |-> <<100, 110, 121>>, indexName |-> "",
   cols |-> <<[name |-> "host_offset", vals |-> <<0, 10, 20>>]>>]

FlatTable ==
  [kind |-> "DataFrame", index |-> <<0, 1>>, indexName |-> "",
   cols |-> <<[name |-> "host_offset", vals |-> <<5, 15>>],
              [name |-> "num_sats", vals |-> <<6, 7>>]>>]

\* Two satellites, two epochs; satellite 7 has no record at epoch 2.
PanelTable ==
  [kind |-> "Panel", items |-> {3, 7}, minor |-> {1, 2},
   fields |-> <<[name |-> "host_offset",
                 data |-> (3 :> (1 :> {4} @@ 2 :> {14}) @@ 7 :> (1 :> {4} @@ 2 :> NaN))],
                [name |-> "P",
                 data |-> (3 :> (1 :> {20} @@ 2 :> {21}) @@ 7 :> (1 :> {30} @@ 2 :> NaN))]>>]

SeriesTable == [kind |-> "Series", index |-> <<0, 1>>, vals |-> <<1, 2>>]

\* The stores a run may start from: the reference table is there, tab_a is
\* absent, flat or a series, tab_b is absent or a panel.
InitStores ==
  {("rover_spp" :> RoverSpp) @@ a @@ b :
      a \in {<<>>, "tab_a" :> FlatTable, "tab_a" :> SeriesTable},
      b \in {<<>>, "tab_b" :> PanelTable}}

StoreInit ==
  /\ store \in InitStores
  /\ op = "none" /\ tabs = <<>> /\ gpst_col = "approx_gps_time"
  /\ status = "ok" /\ log = <<>> /\ calls = 0 /\ repeated = FALSE
  /\ rover_obs = <<>> /\ base_obs = <<>> /\ obs_type = "" /\ sdiff = <<>>
  /\ sdiff_rev = <<>> /\ ref_sat = {} /\ ddiff_ref = {} /\ ddiff = <<>> /\ dstage = "idle"
  /\ idx = <<>> /\ n = 0 /\ gaps = <<>> /\ gstage = "idle"

Returned(name, ts, col, r) ==
  /\ store' = r.store
  /\ op' = name
  /\ tabs' = ts
  /\ gpst_col' = col
  /\ status' = r.status
  /\ log' = r.log
  /\ calls' = calls + 1
  /\ repeated' = (op = name /\ tabs = ts /\ gpst_col = col)

CallBackfill ==
  /\ calls < MaxCalls
  /\ \E ts \in TabLists, col \in Cols :
        Returned("get_gps_time_col", ts, col, get_gps_time_col(store, ts, col))
  /\ UNCHANGED <<diffVars, gapVars>>

CallReindex ==
  /\ calls < MaxCalls
  /\ \E ts \in TabLists, col \in Cols :
        Returned("reindex_tables", ts, col, reindex_tables(store, ts, col))
  /\ UNCHANGED <<diffVars, gapVars>>

StoreNext == CallBackfill \/ CallReindex

SpecStore == StoreInit /\ [][StoreNext]_vars

(***************************************************************************)
(* Properties of the batch operations.                                     *)
(***************************************************************************)
IsCall(name) == op' = name /\ calls' = calls + 1

Processed(i) == log[i] \in {"DataFrame", "Panel"}

FirstVisit(ts, i) == \A j \in 1..(i - 1) : ts[j] # ts[i]

\* The exception DataFrame.set_index raises for a key that is no column (the
\* specification's MissingColumnError).
MissingColumnError == "KeyError"

\* C1: in a backfill or reindex batch, a name absent from the store is only
\* warned about: it is exactly the absent names that are warned about, the
\* store has no entry for such a name afterwards, and the loop goes on to the
\* next name (if the absent name was the last one reached, it was the last of
\* the list and the call returned normally).
C1_MissingTableOnlyWarns ==
  op # "none" =>
    \A i \in 1..Len(log) :
      /\ (tabs[i] \notin DOMAIN store) <=> (log[i] = "warn")
      /\ (log[i] = "warn" /\ i = Len(log)) => (status = "ok" /\ Len(log) = Len(tabs))

\* C1 witness: a batch warned about an absent name and processed a later one.
C1_Witness ==
  /\ op # "none" /\ status = "ok"
  /\ \E i, j \in 1..Len(log) : i < j /\ log[i] = "warn" /\ Processed(j)

\* C2 (as claimed): whenever reindex reaches a name whose stored table is a
\* panel, the call fails with NotImplementedError there.
C2_PanelReindexFails ==
  op = "reindex_tables" =>
    \A i \in 1..Len(log) :
      (tabs[i] \in DOMAIN store /\ store[tabs[i]].kind = "Panel")
        => (status = "NotImplementedError" /\ i = Len(log))

\* C3 (as claimed): whenever backfill reaches a name whose stored value is
\* neither a flat table nor a panel, the call fails with
\* UnsupportedTableTypeError and the loop stops there; at any other name
\* (missing, flat, panel) backfill does not fail.
C3_BackfillUnsupportedTypeFails ==
  op = "get_gps_time_col" =>
    \A i \in 1..Len(log) :
      IF tabs[i] \in DOMAIN store /\ store[tabs[i]].kind \notin {"DataFrame", "Panel"}
      THEN status = "UnsupportedTableTypeError" /\ i = Len(log)
      ELSE i = Len(log) => status = "ok"

\* C4: reindexing a flat table by key_column (the first time the batch
\* reaches the table): if the table has the column, the stored table's row
\* labels are afterwards that column's values in the original row order; if
\* it lacks the column, the call fails there with the missing-column error
\* and the stored table is unchanged.
C4_ReindexFlat ==
  [][IsCall("reindex_tables") =>
       \A i \in 1..Len(log') :
         LET t == tabs'[i] IN
         (FirstVisit(tabs', i) /\ t \in DOMAIN store /\ store[t].kind = "DataFrame") =>
           IF HasColumn(store[t], gpst_col')
           THEN /\ log'[i] = "DataFrame"
                /\ store'[t].index = Column(store[t], gpst_col')
                /\ Len(store'[t].index) = Len(store[t].index)
           ELSE /\ status' = MissingColumnError
                /\ i = Len(log')
                /\ store'[t] = store[t]]_vars

\* C4 witness: a reindex batch re-keyed a flat table by the column, then
\* reached a table lacking the column and failed.
C4_Witness ==
  /\ op = "reindex_tables" /\ status = MissingColumnError
  /\ \E i \in 1..Len(log) :
        /\ log[i] = "DataFrame"
        /\ store[tabs[i]].indexName = gpst_col
        /\ Len(store[tabs[i]].index) >= 2

\* C5: backfill is idempotent: a backfill called again with the same
\* arguments right after a backfill leaves the store exactly as the first
\* call left it (the column is overwritten, not added a second time).
C5_BackfillIdempotent ==
  [][(IsCall("get_gps_time_col") /\ repeated') => store' = store]_vars

\* C5 witness: the second of two identical backfills has returned, having
\* written the column into a flat table and into a panel.
C5_Witness ==
  /\ op = "get_gps_time_col" /\ repeated /\ status = "ok"
  /\ \E i, j \in 1..Len(log) : log[i] = "DataFrame" /\ log[j] = "Panel"

\* C10 (as claimed): backfill stores the derived times under the field named
\* by target_column in every table it processes, flat or panel, and with a
\* target_column other than "approx_gps_time" no processed table gains a
\* field named "approx_gps_time".
C10_TargetColumnHonoured ==
  [][IsCall("get_gps_time_col") =>
       \A i \in 1..Len(log') :
         LET t == tabs'[i] IN
         /\ log'[i] = "DataFrame" =>
              /\ HasColumn(store'[t], gpst_col')
              /\ (gpst_col' # "approx_gps_time" /\ HasColumn(store'[t], "approx_gps_time"))
                    => HasColumn(store[t], "approx_gps_time")
         /\ log'[i] = "Panel" =>
              /\ HasField(store'[t], gpst_col')
              /\ (gpst_col' # "approx_gps_time" /\ HasField(store'[t], "approx_gps_time"))
                    => HasField(store[t], "approx_gps_time")]_vars

(***************************************************************************)
(* The differencer.  A two-dimensional table (pandas.DataFrame) is         *)
(*   [index: Seq(label), columns: Seq(label), data]                        *)
(* with data[row][column] a cell.  The observation panels hold epochs on   *)
(* the item axis and satellites on the minor axis, so that                 *)
(* panel[:, obs_type, :] has one row per satellite and one column per      *)
(* epoch, and get_sdiff's transpose is time-major.                         *)
(***************************************************************************)
Range(s) == {s[i] : i \in 1..Len(s)}

RECURSIVE SortedSeq(_)
\* The labels of a set in ascending order.
SortedSeq(S) ==
  IF S = {} THEN <<>>
  ELSE LET m == CHOOSE x \in S : \A y \in S : x <= y
       IN  <<m>> \o SortedSeq(S \ {m})

\* The outer join of two axes when two tables are combined: equal axes are
\* kept as they are, different ones give the sorted union.
AlignAxis(a, b) == IF a = b THEN a ELSE SortedSeq(Range(a) \cup Range(b))

\* A bug the subtraction could have: a value missing on the right counts as zero.
CellSubFill(a, b) == IF b = {} THEN a ELSE {x - y : x \in a, y \in b}

\* a - b on cells: missing when either side is missing.
CellSub(a, b) == {x - y : x \in a, y \in b}

\* The cell of table df at (r, c), missing when df has no such row or column.
CellAt(df, r, c) ==
  IF r \in Range(df.index) /\ c \in Range(df.columns) THEN df.data[r][c] ELSE NaN

\* panel[:, obs_type, :]: rows = minor axis, columns = items.
MajorXs(p, f) ==
  [index |-> p.minor, columns |-> p.items,
   data |-> [r \in Range(p.minor) |-> [c \in Range(p.items) |-> Field(p, f)[c][r]]]]

\* DataFrame - DataFrame: both axes are aligned, then cell by cell.
FrameSub(a, b) ==
  LET rows == AlignAxis(a.index, b.index)
      cols == AlignAxis(a.columns, b.columns)
  IN  [index |-> rows, columns |-> cols,
       data |-> [r \in Range(rows) |->
                   [c \in Range(cols) |-> CellSub(CellAt(a, r, c), CellAt(b, r, c))]]]

\* dropna(how='all', axis=0): the rows that are missing everywhere leave.
DropRows(df) ==
  LET keep == SelectSeq(df.index, LAMBDA r : \E c \in Range(df.columns) : df.data[r][c] # NaN)
  IN  [index |-> keep, columns |-> df.columns,
       data |-> [r \in Range(keep) |-> df.data[r]]]

\* dropna(how='all', axis=1): the columns that are missing everywhere leave.
DropColumns(df) ==
  LET keep == SelectSeq(df.columns, LAMBDA c : \E r \in Range(df.index) : df.data[r][c] # NaN)
  IN  [index |-> df.index, columns |-> keep,
       data |-> [r \in Range(df.index) |-> [c \in Range(keep) |-> df.data[r][c]]]]

Transpose(df) ==
  [index |-> df.columns, columns |-> df.index,
   data |-> [r \in Range(df.columns) |-> [c \in Range(df.index) |-> df.data[c][r]]]]

\* The body of get_sdiff once obs_type has passed the assertion; dropna with
\* axis=[0, 1] drops along axis 0, then along axis 1 of what is left.
get_sdiff(o, rover, base) ==
  Transpose(DropColumns(DropRows(FrameSub(MajorXs(rover, o), MajorXs(base, o)))))

\* DataFrame.count(): per column, the number of values that are not missing.
Count(df, c) == Cardinality({r \in Range(df.index) : df.data[r][c] # NaN})

RECURSIVE ArgMaxLast(_, _, _, _)
\* A bug argmax could have: among equal counts the last column wins.
ArgMaxLast(df, i, best, bestCount) ==
  IF i > Len(df.columns) THEN best
  ELSE IF Count(df, df.columns[i]) >= bestCount
    THEN ArgMaxLast(df, i + 1, df.columns[i], Count(df, df.columns[i]))
  ELSE ArgMaxLast(df, i + 1, best, bestCount)

RECURSIVE ArgMax(_, _, _, _)
\* Series.argmax(): the label of the first occurrence of the maximum.
ArgMax(df, i, best, bestCount) ==
  IF i > Len(df.columns) THEN best
  ELSE IF Count(df, df.columns[i]) > bestCount
    THEN ArgMax(df, i + 1, df.columns[i], Count(df, df.columns[i]))
  ELSE ArgMax(df, i + 1, best, bestCount)

\* sdiff.count().argmax(), for a table with at least one column.
get_ref_sat(df) == ArgMax(df, 2, df.columns[1], Count(df, df.columns[1]))

\* A bug get_ddiff could have: the reference column itself is left as it is.
get_ddiff_keep_ref(ref, df) ==
  [df EXCEPT !.data = [r \in Range(df.index) |->
                         [c \in Range(df.columns) |->
                            IF c = ref THEN df.data[r][c]
                            ELSE CellSub(df.data[r][c], df.data[r][ref])]]]

\* sdiff - sdiff[ref_sat], for ref_sat a column of sdiff: a time series is
\* subtracted from a table of time series row by row (matched on the index).
get_ddiff(ref, df) ==
  [df EXCEPT !.data = [r \in Range(df.index) |->
                         [c \in Range(df.columns) |->
                            CellSub(df.data[r][c], df.data[r][ref])]]]

\* Largest observation value of the differencer's inputs.
MaxObs == 1

\* What a cell of the rover's pseudorange layer may hold.
RoverCells == {NaN} \cup {{v} : v \in 0..MaxObs}

\* What a cell of the base station's pseudorange layer may hold.
BaseCells == {NaN, {0}, {1}}

AllSats == {3, 7}

\* A panel with epochs `items`, satellites `minor` and pseudoranges `p`; the
\* carrier phase is recorded where the pseudorange is missing.
ObsPanel(items, minor, p) ==
  [kind |-> "Panel", items |-> items, minor |-> minor,
   fields |-> <<[name |-> "P", data |-> p],
                [name |-> "L", data |-> [e \in Range(items) |-> [sat \in Range(minor) |->
                                            IF p[e][sat] = NaN THEN {0} ELSE NaN]]]>>]

ObsPanels(itemChoices, minorChoices, cells) ==
  UNION {{ObsPanel(items, minor, p) : p \in [Range(items) -> [Range(minor) -> cells]]} :
           items \in itemChoices, minor \in minorChoices}

DiffInit ==
  /\ rover_obs \in ObsPanels({<<1, 2>>, <<1>>}, {<<7, 3>>, <<3>>}, RoverCells)
  /\ base_obs \in ObsPanels({<<1, 2>>}, {<<7, 3>>, <<7>>}, BaseCells)
  /\ obs_type = "" /\ sdiff = <<>> /\ sdiff_rev = <<>> /\ ref_sat = {}
  /\ ddiff_ref = {} /\ ddiff = <<>> /\ dstage = "input"
  /\ store = ("rover_spp" :> RoverSpp)
  /\ op = "none" /\ tabs = <<>> /\ gpst_col = "approx_gps_time"
  /\ status = "ok" /\ log = <<>> /\ calls = 0 /\ repeated = FALSE
  /\ idx = <<>> /\ n = 0 /\ gaps = <<>> /\ gstage = "idle"

\* get_sdiff(o, rover_obs, base_obs)
GetSdiff ==
  /\ dstage = "input"
  /\ \E o \in {"P", "L", "X"} :
        /\ obs_type' = o
        /\ IF o \in {"P", "L"}
           THEN sdiff' = get_sdiff(o, rover_obs, base_obs) /\ dstage' = "sdiff"
           ELSE sdiff' = sdiff /\ dstage' = "AssertionError"
  /\ UNCHANGED <<rover_obs, base_obs, sdiff_rev, ref_sat, ddiff_ref, ddiff, storeVars, gapVars>>

\* get_sdiff(obs_type, base_obs, rover_obs): the same call, panels exchanged
GetSdiffRev ==
  /\ dstage = "sdiff"
  /\ sdiff_rev' = get_sdiff(obs_type, base_obs, rover_obs)
  /\ dstage' = "sdiff_rev"
  /\ UNCHANGED <<rover_obs, base_obs, obs_type, sdiff, ref_sat, ddiff_ref, ddiff, storeVars, gapVars>>

\* get_ref_sat(sdiff); argmax of an empty count raises ValueError
GetRefSat ==
  /\ dstage = "sdiff"
  /\ IF sdiff.columns = <<>>
     THEN ref_sat' = ref_sat /\ dstage' = "ValueError"
     ELSE ref_sat' = {get_ref_sat(sdiff)} /\ dstage' = "ref_sat"
  /\ UNCHANGED <<rover_obs, base_obs, obs_type, sdiff, sdiff_rev, ddiff_ref, ddiff, storeVars, gapVars>>

\* get_ddiff(ref, sdiff); sdiff[ref] raises KeyError when ref is no column
GetDdiff ==
  /\ dstage \in {"sdiff", "ref_sat"}
  /\ \E ref \in AllSats :
        /\ ddiff_ref' = {ref}
        /\ IF ref \in Range(sdiff.columns)
           THEN ddiff' = get_ddiff(ref, sdiff) /\ dstage' = "ddiff"
           ELSE ddiff' = ddiff /\ dstage' = "KeyError"
  /\ UNCHANGED <<rover_obs, base_obs, obs_type, sdiff, sdiff_rev, ref_sat, storeVars, gapVars>>

DiffNext == GetSdiff \/ GetSdiffRev \/ GetRefSat \/ GetDdiff

SpecDiff == DiffInit /\ [][DiffNext]_vars

(***************************************************************************)
(* Properties of the differencer.                                          *)
(***************************************************************************)
\* C6 (as claimed): double_diff(ref_sat, sdiff) is zero in the column of
\* ref_sat at every epoch, also where the reference satellite's single
\* difference is missing, and every other column holds the satellite's
\* single difference minus the reference satellite's at the same epoch.
C6_RefColumnZeroEverywhere ==
  dstage = "ddiff" =>
    \A ref \in ddiff_ref : \A r \in Range(sdiff.index) :
      /\ ddiff.data[r][ref] = {0}
      /\ \A c \in Range(sdiff.columns) \ {ref} :
            ddiff.data[r][c] = {x - y : x \in sdiff.data[r][c], y \in sdiff.data[r][ref]}

\* C6 (amended): the table keeps its rows and columns; the column of ref_sat
\* is zero at every epoch where the reference satellite's single difference
\* is present and missing where it is missing; every other column holds the
\* satellite's single difference minus the reference satellite's where both
\* are present, and is missing elsewhere.
C6_RefColumnZeroWherePresent ==
  dstage = "ddiff" =>
    \A ref \in ddiff_ref :
      /\ ddiff.index = sdiff.index /\ ddiff.columns = sdiff.columns
      /\ \A r \in Range(sdiff.index) :
           /\ ddiff.data[r][ref] = IF sdiff.data[r][ref] = NaN THEN NaN ELSE {0}
           /\ \A c \in Range(sdiff.columns) \ {ref} :
                 ddiff.data[r][c] =
                   IF sdiff.data[r][c] = NaN \/ sdiff.data[r][ref] = NaN THEN NaN
                   ELSE {x - y : x \in sdiff.data[r][c], y \in sdiff.data[r][ref]}

\* C6 witness: a double difference whose reference satellite is missing at
\* one epoch and present at another, with a second satellite in the table.
C6_Witness ==
  /\ dstage = "ddiff"
  /\ \E ref \in ddiff_ref :
        /\ \E r1, r2 \in Range(sdiff.index) :
              /\ sdiff.data[r1][ref] = NaN /\ ddiff.data[r1][ref] = NaN
              /\ sdiff.data[r2][ref] # NaN /\ ddiff.data[r2][ref] = {0}
        /\ \E c \in Range(sdiff.columns) \ {ref}, r \in Range(sdiff.index) :
              ddiff.data[r][c] \notin {NaN, {0}}

\* C7: for an sdiff table with at least one column, reference_satellite
\* returns a column whose count of non-missing values is at least that of
\* every other column, and no column before it in column order has as many.
C7_RefSatFirstArgMax ==
  dstage = "ref_sat" =>
    \E i \in 1..Len(sdiff.columns) :
      /\ ref_sat = {sdiff.columns[i]}
      /\ \A j \in 1..Len(sdiff.columns) :
            Cardinality({r \in Range(sdiff.index) : sdiff.data[r][sdiff.columns[i]] # NaN})
              >= Cardinality({r \in Range(sdiff.index) : sdiff.data[r][sdiff.columns[j]] # NaN})
      /\ \A j \in 1..(i - 1) :
            Cardinality({r \in Range(sdiff.index) : sdiff.data[r][sdiff.columns[j]] # NaN})
              < Cardinality({r \in Range(sdiff.index) : sdiff.data[r][sdiff.columns[i]] # NaN})

\* C7 witness: two columns tie for the largest count and the first is returned.
C7_Witness ==
  /\ dstage = "ref_sat"
  /\ Len(sdiff.columns) = 2
  /\ ref_sat = {sdiff.columns[1]}
  /\ Cardinality({r \in Range(sdiff.index) : sdiff.data[r][sdiff.columns[1]] # NaN})
       = Cardinality({r \in Range(sdiff.index) : sdiff.data[r][sdiff.columns[2]] # NaN})

\* C8 is stated with the gap finder below.

\* C9: single_diff is antisymmetric: with the panels exchanged the result has
\* the same epochs (rows) and satellites (columns), every cell missing in one
\* is missing in the other, and every other cell is the negation of the same
\* cell of the other.
C9_SdiffAntisymmetric ==
  dstage = "sdiff_rev" =>
    /\ sdiff_rev.index = sdiff.index
    /\ sdiff_rev.columns = sdiff.columns
    /\ \A r \in Range(sdiff.index) : \A c \in Range(sdiff.columns) :
          sdiff_rev.data[r][c] = {0 - v : v \in sdiff.data[r][c]}

\* C9 witness: both single differences are computed and hold a non-zero
\* difference and a missing cell.
C9_Witness ==
  /\ dstage = "sdiff_rev"
  /\ \E r \in Range(sdiff.index), c \in Range(sdiff.columns) : sdiff.data[r][c] \notin {NaN, {0}}
  /\ \E r \in Range(sdiff.index), c \in Range(sdiff.columns) : sdiff.data[r][c] = NaN

(***************************************************************************)
(* The gap finder.  A series (pandas.Series) is a sequence of              *)
(* [label, value] with value a cell; idx holds whole seconds, so that      *)
(* (idx - idx[0]) / Timedelta('00:00:01') is an integer.                   *)
(***************************************************************************)
\* A bug diff could have: the first element gets a gap of zero.
SeriesDiffZeroFirst(s) ==
  [i \in 1..Len(s) |->
     [label |-> s[i].label,
      value |-> IF i = 1 THEN {0} ELSE CellSub(s[i].value, s[i - 1].value)]]

\* Series.diff(): each value minus the one before it; the first has none.
SeriesDiff(s) ==
  [i \in 1..Len(s) |->
     [label |-> s[i].label,
      value |-> IF i = 1 THEN NaN ELSE CellSub(s[i].value, s[i - 1].value)]]

\* Series.dropna()
DropNa(s) == SelectSeq(s, LAMBDA e : e.value # NaN)

\* The value a cell that is not missing holds.
Val(cell) == CHOOSE v \in cell : TRUE

\* The position of the first occurrence of the largest value of a non-empty
\* series without missing values.
FirstMaxPos(s) ==
  CHOOSE i \in 1..Len(s) :
    /\ \A j \in 1..Len(s) : Val(s[j].value) <= Val(s[i].value)
    /\ \A j \in 1..(i - 1) : Val(s[j].value) < Val(s[i].value)

RemoveAt(s, i) == SubSeq(s, 1, i - 1) \o SubSeq(s, i + 1, Len(s))

RECURSIVE SelectLargest(_, _)
\* The k largest entries, largest first, equal values in their original order.
SelectLargest(s, k) ==
  IF k <= 0 \/ s = <<>> THEN <<>>
  ELSE <<s[FirstMaxPos(s)]>> \o SelectLargest(RemoveAt(s, FirstMaxPos(s)), k - 1)

\* Series.nlargest(k): nothing for k <= 0, else the k largest of the values
\* that are not missing.
NLargest(s, k) == IF k <= 0 THEN <<>> ELSE SelectLargest(DropNa(s), k)

\* find_largest_gaps(index, k) for a non-empty index.
find_largest_gaps(index, k) ==
  LET adj == [i \in 1..Len(index) |-> [label |-> index[i], value |-> {index[i] - index[1]}]]
  IN  NLargest(SeriesDiff(adj), k)

\* Longest time index.
MaxLen == 4

\* Latest timestamp.
MaxTime == 3

\* Largest number of gaps asked for.
MaxN == 4

\* The time-ordered indexes (duplicates allowed).
TimeIndexes ==
  UNION {{s \in [1..k -> 0..MaxTime] : \A i \in 1..(k - 1) : s[i] <= s[i + 1]} : k \in 0..MaxLen}

GapInit ==
  /\ idx \in TimeIndexes
  /\ n \in 0..MaxN
  /\ gaps = <<>> /\ gstage = "input"
  /\ store = ("rover_spp" :> RoverSpp)
  /\ op = "none" /\ tabs = <<>> /\ gpst_col = "approx_gps_time"
  /\ status = "ok" /\ log = <<>> /\ calls = 0 /\ repeated = FALSE
  /\ rover_obs = <<>> /\ base_obs = <<>> /\ obs_type = "" /\ sdiff = <<>>
  /\ sdiff_rev = <<>> /\ ref_sat = {} /\ ddiff_ref = {} /\ ddiff = <<>> /\ dstage = "idle"

\* find_largest_gaps(idx, n); idx[0] raises IndexError on an empty index
FindLargestGaps ==
  /\ gstage = "input"
  /\ IF idx = <<>>
     THEN gaps' = gaps /\ gstage' = "IndexError"
     ELSE gaps' = find_largest_gaps(idx, n) /\ gstage' = "done"
  /\ UNCHANGED <<idx, n, storeVars, diffVars>>

GapNext == FindLargestGaps

SpecGaps == GapInit /\ [][GapNext]_vars

(***************************************************************************)
(* Properties of the gap finder.                                           *)
(***************************************************************************)
\* The gap that ends at position i of idx (i >= 2).
GapAt(i) == idx[i] - idx[i - 1]

\* The rank of the gap ending at position i among all gaps: one more than the
\* number of gaps that are larger, or equal and earlier.
GapRank(i) ==
  1 + Cardinality({j \in 2..Len(idx) :
                     GapAt(j) > GapAt(i) \/ (GapAt(j) = GapAt(i) /\ j < i)})

\* C8: for a time-ordered index with at least one timestamp and n >= 0,
\* find_largest_gaps returns min(n, number of timestamps - 1) entries: the
\* largest gaps between consecutive timestamps in descending order, equal
\* gaps in their original order, each with the timestamp at which the gap
\* ends; the first timestamp's (undefined) gap is no entry, and n = 0 gives
\* an empty result.
C8_LargestGaps ==
  gstage = "done" =>
    /\ Len(gaps) = Min(n, Len(idx) - 1)
    /\ \A i \in 2..Len(idx) :
          GapRank(i) <= Len(gaps) =>
            gaps[GapRank(i)] = [label |-> idx[i], value |-> {GapAt(i)}]
    /\ n = 0 => gaps = <<>>

\* C8 witness: two gaps are returned out of three; they are equal and in
\* their original order, and a smaller gap is left out.
C8_Witness ==
  /\ gstage = "done"
  /\ n = 2 /\ Len(idx) = 4 /\ Len(gaps) = 2
  /\ gaps[1].value = gaps[2].value
  /\ gaps[1].label < gaps[2].label
  /\ \E i \in 2..Len(idx) : {GapAt(i)} # gaps[2].value

====
